---- MODULE Spec2Model ----
(***************************************************************************)
(* Model of DECLARE_STL_ALLOCATOR_WRAPPER (allocwrap.hpp) bound to the     *)
(* native allocator g_alloc of demo.cpp.                                   *)
(*                                                                         *)
(* The generated class CLASS_TYPE<T> has no data members; every call goes  *)
(* to the one object NATIVE_INSTANCE_PTR names.  The native allocator is   *)
(* modelled as a recording allocator: `heap` is its set of outstanding     *)
(* blocks and `calls` the member-function calls the last adapter operation *)
(* made on it, with their arguments and results.                           *)
(***************************************************************************)
EXTENDS Integers, Sequences, FiniteSets, TLC

(* ----- bounds of the model ----- *)

\* width in bits of std::size_t (scaled down; arithmetic is modulo 2^SizeBits)
SizeBits == 4
\* number of distinct non-null addresses the native malloc can hand out
MaxBlocks == 2
\* number of adapter objects that can exist at the same time
MaxInst == 2

SizeMod == 2 ^ SizeBits
SizeType == 0 .. (SizeMod - 1)

(* ----- element types and values ----- *)

\* element types the wrapper is instantiated with (demo.cpp:46,50; allocwrap.hpp:43)
ElemTypes == {"char", "pair"}

\* sizeof(value_type), in bytes, on the scaled-down machine
SizeOf(T) == CASE T = "char" -> 1
               [] T = "pair" -> 6

\* values an element can hold
Values == {"a", "b"}

NoType == "-"
NoVal == "-"

NULL == 0
Ptrs == 1 .. MaxBlocks
Slots == 1 .. MaxInst

VARIABLES
  heap,       \* native allocator: addresses malloc'ed and not yet free'd
  max_bytes,  \* native allocator: the value its max_size() returns
  insts,      \* adapter objects: slot -> element type, or NoType when no object
  live,       \* caller's view: pointers returned by allocate, not yet deallocated
  mem,        \* per address: the element storage at the start of the block
  calls,      \* calls the last operation made on the native allocator
  op          \* the last adapter operation, its arguments and its outcome

vars == <<heap, max_bytes, insts, live, mem, calls, op>>

(* ----- the native allocator (demo.cpp) ----- *)

Call(fn, arg, res) == [fn |-> fn, arg |-> arg, res |-> res]

\* MyDummyAllocator::malloc: ::malloc either fails or returns an address not in use
NativeMalloc(h, bytes) == {NULL} \cup (Ptrs \ h)

\* MyDummyAllocator::free: ::free(NULL) does nothing
NativeFree(h, p) == h \ {p}

\* effect on the outstanding blocks of a sequence of calls
RECURSIVE NativeRun(_, _)
NativeRun(h, cs) ==
  IF cs = <<>> THEN h
  ELSE LET c == Head(cs)
           h1 == CASE c.fn = "malloc" -> IF c.res = NULL THEN h ELSE h \cup {c.res}
                   [] c.fn = "free" -> NativeFree(h, c.arg)
                   [] OTHER -> h
       IN NativeRun(h1, Tail(cs))

(* ----- the adapter CLASS_TYPE<T> (allocwrap.hpp) ----- *)

\* an adapter object: where it lives and its element type; it has no data members
Inst(s) == [id |-> s, type |-> insts[s]]
\* the place of a temporary made by an implicit conversion
Temporary == MaxInst + 1

\* CLASS_TYPE() {}
default_ctor(T) == [calls |-> <<>>, type |-> T]

\* a copy constructor that asks the native allocator for its limit
copy_ctor_probing(other) == [calls |-> <<Call("max_size", 0, 0)>>, type |-> other.type]

\* CLASS_TYPE(const CLASS_TYPE& other) {}
copy_ctor(other) == [calls |-> <<>>, type |-> other.type]

\* template <typename U> CLASS_TYPE(const CLASS_TYPE<U>& other) {}
rebind_ctor(other, T) == [calls |-> <<>>, type |-> T]

\* operator= (both overloads): { return *this; }
assign(self, other) == [calls |-> <<>>, type |-> self.type]

\* ~CLASS_TYPE() {}
dtor(self) == [calls |-> <<>>, type |-> NoType]

\* equality by identity of the two objects (this == &other)
OpEq_identity(self, other) == self.id = other.id

\* bool operator== (const CLASS_TYPE& other) const { return true; }
OpEq(self, other) == TRUE

\* bool operator!= (const CLASS_TYPE& other) const { return false; }
OpNe(self, other) == FALSE

\* the argument of == and != is a const CLASS_TYPE<T>&: an adapter of another
\* element type is first converted by the template constructor
AsArg(self, b) ==
  IF b.type = self.type THEN b
  ELSE [id |-> Temporary, type |-> rebind_ctor(b, self.type).type]

\* room for one element more than asked for
allocate_bytes_extra(n, T) == ((n + 1) * SizeOf(T)) % SizeMod

\* n * sizeof(value_type), computed in size_type
allocate_bytes(n, T) == (n * SizeOf(T)) % SizeMod

\* the result of malloc returned unchecked
allocate_outcome_unchecked(ptr) == [thrown |-> FALSE, ret |-> ptr]

\* if (NULL == ptr) throw std::bad_alloc(); return ptr;
allocate_outcome(ptr) == [thrown |-> (ptr = NULL), ret |-> ptr]

\* the block is never handed back
deallocate_arg_null(p, n) == NULL

\* nothing is released when the count is zero
deallocate_arg_skip_zero(p, n) == IF n = 0 THEN NULL ELSE p

\* the end of the block is released instead of its start
deallocate_arg_end(p, n) == p + n

\* (NATIVE_INSTANCE_PTR)->free(p); n;
deallocate_arg(p, n) == p

\* the quotient rounded up
max_size_ceil(T, mb) == (mb + SizeOf(T) - 1) \div SizeOf(T)

\* (NATIVE_INSTANCE_PTR)->max_size() / sizeof(value_type)
max_size(T, mb) == mb \div SizeOf(T)

\* ::new (p) value_type: val is not copied
construct_at_default(old, val) == [old EXCEPT !.st = "constructed"]

\* ::new (p) value_type(val): the stored object is a copy of val
construct_at(old, val) == [old EXCEPT !.st = "constructed", !.val = val]

\* p->~value_type(): the object ends; what the storage then holds is indeterminate
destroy_at(old) == {[old EXCEPT !.st = "destroyed", !.val = g] : g \in Values}

(* ----- state ----- *)

NoStorage == [type |-> NoType, st |-> "none", val |-> NoVal]
RawStorage(T) == [type |-> T, st |-> "raw", val |-> NoVal]

\* storage of a block of `bytes` bytes obtained for elements of type T
BlockStorage(T, bytes) == IF bytes >= SizeOf(T) THEN RawStorage(T) ELSE NoStorage

NoOp == [name |-> "-", type |-> NoType, other |-> NoType, n |-> 0, p |-> NULL,
         ret |-> NULL, thrown |-> FALSE, pre |-> 0,
         val |-> NoVal, before |-> NoStorage, eq |-> TRUE, ne |-> FALSE]

\* the caller is between two calls on an adapter
Idle == op = NoOp

InUse == {s \in Slots : insts[s] # NoType}

\* an adapter object for element type T exists
Bound(T) == \E s \in InUse : insts[s] = T

TypeOK ==
  /\ heap \subseteq Ptrs
  /\ live \subseteq Ptrs \cup {NULL}
  /\ max_bytes \in SizeType
  /\ insts \in [Slots -> ElemTypes \cup {NoType}]
  /\ DOMAIN mem = Ptrs
  /\ Len(calls) <= 2

InitCommon ==
  /\ heap = {}
  /\ live = {}
  /\ mem = [p \in Ptrs |-> NoStorage]
  /\ calls = <<>>
  /\ op = NoOp

\* demo.cpp: g_alloc exists, max_size() is half the range of a 32-bit size_t,
\* no container and so no adapter object exists yet
Init ==
  /\ InitCommon
  /\ max_bytes = SizeMod \div 2
  /\ insts = [s \in Slots |-> NoType]

\* adapters of both element types exist (a string and a map are alive)
BothBound == [s \in Slots |-> IF s % 2 = 1 THEN "char" ELSE "pair"]

\* a native allocator whose max_size() is any value of size_t
InitNum ==
  /\ InitCommon
  /\ max_bytes \in SizeType
  /\ insts = BothBound

InitObj ==
  /\ InitCommon
  /\ max_bytes = SizeMod \div 2
  /\ insts = BothBound

(* ----- construction, copy, assignment, destruction, comparison ----- *)

Lifecycle(name, s, r, other) ==
  /\ Idle
  /\ calls' = r.calls
  /\ heap' = NativeRun(heap, calls')
  /\ insts' = [insts EXCEPT ![s] = r.type]
  /\ op' = [NoOp EXCEPT !.name = name, !.type = r.type, !.other = other,
                         !.pre = Cardinality(heap)]
  /\ UNCHANGED <<max_bytes, live, mem>>

DefaultCtor(s, T) ==
  /\ insts[s] = NoType
  /\ Lifecycle("default_ctor", s, default_ctor(T), NoType)

CopyCtor(s, src) ==
  /\ insts[s] = NoType
  /\ src \in InUse
  /\ Lifecycle("copy_ctor", s, copy_ctor(Inst(src)), insts[src])

RebindCtor(s, src, T) ==
  /\ insts[s] = NoType
  /\ src \in InUse
  /\ insts[src] # T
  /\ Lifecycle("rebind_ctor", s, rebind_ctor(Inst(src), T), insts[src])

Assign(s, src) ==
  /\ s \in InUse
  /\ src \in InUse
  /\ Lifecycle("assign", s, assign(Inst(s), Inst(src)), insts[src])

Dtor(s) ==
  /\ s \in InUse
  /\ Lifecycle("dtor", s, dtor(Inst(s)), NoType)

Compare(a, b) ==
  /\ Idle
  /\ a \in InUse
  /\ b \in InUse
  /\ calls' = <<>>
  /\ op' = [NoOp EXCEPT !.name = "compare", !.type = insts[a], !.other = insts[b],
                         !.pre = Cardinality(heap),
                         !.eq = OpEq(Inst(a), AsArg(Inst(a), Inst(b))),
                         !.ne = OpNe(Inst(a), AsArg(Inst(a), Inst(b)))]
  /\ UNCHANGED <<heap, max_bytes, insts, live, mem>>

(* ----- storage ----- *)

Allocate(T, n) ==
  /\ Idle
  /\ Bound(T)
  /\ LET bytes == allocate_bytes(n, T)
     IN \E r \in NativeMalloc(heap, bytes) :
          LET out == allocate_outcome(r)
          IN /\ calls' = <<Call("malloc", bytes, r)>>
             /\ heap' = NativeRun(heap, calls')
             /\ live' = IF out.thrown THEN live ELSE live \cup {out.ret}
             /\ mem' = IF out.thrown \/ out.ret \notin Ptrs THEN mem
                       ELSE [mem EXCEPT ![out.ret] = BlockStorage(T, bytes)]
             /\ op' = [NoOp EXCEPT !.name = "allocate", !.type = T, !.n = n,
                                    !.ret = out.ret, !.thrown = out.thrown,
                                    !.pre = Cardinality(heap)]
  /\ UNCHANGED <<max_bytes, insts>>

Deallocate(T, p, n) ==
  /\ Idle
  /\ Bound(T)
  /\ p \in live
  /\ calls' = <<Call("free", deallocate_arg(p, n), NULL)>>
  /\ heap' = NativeRun(heap, calls')
  /\ live' = live \ {p}
  /\ mem' = IF p \in Ptrs THEN [mem EXCEPT ![p] = NoStorage] ELSE mem
  /\ op' = [NoOp EXCEPT !.name = "deallocate", !.type = T, !.p = p, !.n = n,
                         !.before = IF p \in Ptrs THEN mem[p] ELSE NoStorage,
                         !.pre = Cardinality(heap)]
  /\ UNCHANGED <<max_bytes, insts>>

\* allocate(n) and, when it returns, deallocate(ptr, n) at once on the result
RoundTrip(T, n) ==
  /\ Idle
  /\ Bound(T)
  /\ LET bytes == allocate_bytes(n, T)
     IN \E r \in NativeMalloc(heap, bytes) :
          LET out == allocate_outcome(r)
              freed == IF out.thrown THEN <<>>
                       ELSE <<Call("free", deallocate_arg(out.ret, n), NULL)>>
          IN /\ calls' = <<Call("malloc", bytes, r)>> \o freed
             /\ heap' = NativeRun(heap, calls')
             /\ op' = [NoOp EXCEPT !.name = "roundtrip", !.type = T, !.n = n,
                                    !.ret = out.ret, !.p = out.ret,
                                    !.thrown = out.thrown,
                                    !.pre = Cardinality(heap)]
  /\ UNCHANGED <<max_bytes, insts, live, mem>>

MaxSize(T) ==
  /\ Idle
  /\ Bound(T)
  /\ calls' = <<Call("max_size", 0, max_bytes)>>
  /\ heap' = NativeRun(heap, calls')
  /\ op' = [NoOp EXCEPT !.name = "max_size", !.type = T,
                         !.ret = max_size(T, calls'[1].res),
                         !.pre = Cardinality(heap)]
  /\ UNCHANGED <<max_bytes, insts, live, mem>>

(* ----- elements ----- *)

Construct(T, p, v) ==
  /\ Idle
  /\ Bound(T)
  /\ p \in live \cap Ptrs
  /\ mem[p].type = T
  /\ mem' = [mem EXCEPT ![p] = construct_at(mem[p], v)]
  /\ calls' = <<>>
  /\ op' = [NoOp EXCEPT !.name = "construct", !.type = T, !.p = p, !.val = v,
                         !.before = mem[p], !.pre = Cardinality(heap)]
  /\ UNCHANGED <<heap, max_bytes, insts, live>>

Destroy(T, p) ==
  /\ Idle
  /\ Bound(T)
  /\ p \in live \cap Ptrs
  /\ mem[p].type = T
  /\ mem[p].st = "constructed"
  /\ \E m \in destroy_at(mem[p]) : mem' = [mem EXCEPT ![p] = m]
  /\ calls' = <<>>
  /\ op' = [NoOp EXCEPT !.name = "destroy", !.type = T, !.p = p,
                         !.before = mem[p], !.pre = Cardinality(heap)]
  /\ UNCHANGED <<heap, max_bytes, insts, live>>

\* the call returns to its caller
Return ==
  /\ ~Idle
  /\ op' = NoOp
  /\ calls' = <<>>
  /\ UNCHANGED <<heap, max_bytes, insts, live, mem>>

(* ----- specifications ----- *)

\* containers creating, copying, rebinding and dropping adapters and moving storage
Next ==
  \/ \E s \in Slots, T \in ElemTypes : DefaultCtor(s, T)
  \/ \E s \in Slots, src \in Slots : CopyCtor(s, src)
  \/ \E s \in Slots, src \in Slots, T \in ElemTypes : RebindCtor(s, src, T)
  \/ \E s \in Slots, src \in Slots : Assign(s, src)
  \/ \E s \in Slots : Dtor(s)
  \/ \E a \in Slots, b \in Slots : Compare(a, b)
  \/ \E T \in ElemTypes, n \in SizeType : Allocate(T, n)
  \/ \E T \in ElemTypes, p \in Ptrs, n \in SizeType : Deallocate(T, p, n)
  \/ \E T \in ElemTypes, n \in SizeType : RoundTrip(T, n)
  \/ \E T \in ElemTypes : MaxSize(T)
  \/ Return

Spec == Init /\ [][Next]_vars

\* sizes: every count and every max_size() of the native allocator
NextNum ==
  \/ \E T \in ElemTypes, n \in SizeType : Allocate(T, n)
  \/ \E T \in ElemTypes, p \in Ptrs, n \in SizeType : Deallocate(T, p, n)
  \/ \E T \in ElemTypes : MaxSize(T)
  \/ Return

SpecNum == InitNum /\ [][NextNum]_vars

\* elements built in and removed from allocated storage
NextObj ==
  \/ \E T \in ElemTypes, n \in SizeType : Allocate(T, n)
  \/ \E T \in ElemTypes, p \in Ptrs, n \in SizeType : Deallocate(T, p, n)
  \/ \E T \in ElemTypes, p \in Ptrs, v \in Values : Construct(T, p, v)
  \/ \E T \in ElemTypes, p \in Ptrs : Destroy(T, p)
  \/ Return

SpecObj == InitObj /\ [][NextObj]_vars

(* ----- properties ----- *)

LifecycleOps == {"default_ctor", "copy_ctor", "rebind_ctor", "assign", "dtor"}

\* C1: allocate(n) makes exactly one malloc request, for exactly n * sizeof(T)
\* bytes (the product as a number, not reduced modulo the range of size_type)
C1_ExactProductRequested ==
  op.name = "allocate" =>
    /\ Len(calls) = 1
    /\ calls[1].fn = "malloc"
    /\ calls[1].arg = op.n * SizeOf(op.type)

\* C2: allocate throws bad_alloc exactly when malloc returned NULL; when it
\* returns, the pointer is non-null and is the one malloc returned
C2_NullBecomesBadAlloc ==
  op.name = "allocate" =>
    /\ Len(calls) = 1
    /\ calls[1].fn = "malloc"
    /\ (op.thrown <=> (calls[1].res = NULL))
    /\ (~op.thrown => (op.ret # NULL /\ op.ret = calls[1].res /\ op.ret \in live))
    /\ (op.thrown => Cardinality(live) = op.pre)

C2_Witness ==
  /\ op.name = "allocate"
  /\ op.thrown
  /\ calls[1].res = NULL
  /\ op.n > 0
  /\ heap # {}

\* C3: any two adapter objects, of any element types, compare == true and
\* != false
C3_AlwaysEqual ==
  /\ \A a \in InUse, b \in InUse :
       /\ OpEq(Inst(a), AsArg(Inst(a), Inst(b)))
       /\ ~OpNe(Inst(a), AsArg(Inst(a), Inst(b)))
  /\ (op.name = "compare" => (op.eq /\ ~op.ne))

C3_Witness ==
  /\ op.name = "compare"
  /\ op.type # op.other
  /\ op.eq

\* C4: the native allocator's outstanding blocks are exactly the pointers
\* returned by allocate and not yet passed to deallocate, whichever adapter
\* objects and element types the calls went through
C4_OutstandingIsLive == heap = live

C4_Witness ==
  /\ op.name = "deallocate"
  /\ op.before.type # NoType
  /\ op.before.type # op.type
  /\ heap # {}

\* C5: constructing, copying, rebinding, assigning and destroying an adapter
\* makes no call on the native allocator and leaves its blocks unchanged
C5_LifecycleTouchesNothing ==
  [][op'.name \in LifecycleOps => (calls' = <<>> /\ heap' = heap)]_vars

C5_Witness ==
  /\ op.name = "copy_ctor"
  /\ heap # {}

\* C6: after allocate(n) succeeds and deallocate(ptr, n) follows at once, the
\* number of outstanding blocks is what it was before the allocate
C6_RoundTripCount ==
  (op.name = "roundtrip" /\ ~op.thrown) => Cardinality(heap) = op.pre

C6_Witness ==
  /\ op.name = "roundtrip"
  /\ ~op.thrown
  /\ op.n > 0
  /\ op.pre > 0

\* C7: max_size() is max_bytes / sizeof(T) rounded down, and the call asks
\* the native allocator for max_size() only
C7_MaxSizeFloor ==
  [][op'.name = "max_size" =>
       (/\ op'.ret * SizeOf(op'.type) <= max_bytes
        /\ max_bytes < (op'.ret + 1) * SizeOf(op'.type)
        /\ calls' = <<Call("max_size", 0, max_bytes)>>
        /\ heap' = heap)]_vars

C7_Witness ==
  /\ op.name = "max_size"
  /\ op.type = "pair"
  /\ op.ret > 0
  /\ max_bytes % SizeOf("pair") # 0
  /\ heap # {}

\* C8: deallocate(p, n) makes exactly one free call, with p itself, and
\* releases exactly that block, whatever n is
C8_FreeIgnoresCount ==
  [][op'.name = "deallocate" =>
       (/\ calls' = <<Call("free", op'.p, NULL)>>
        /\ heap' = heap \ {op'.p})]_vars

C8_Witness ==
  /\ op.name = "deallocate"
  /\ op.before.type # NoType
  /\ op.n = 0

\* C9: construct(p, v) leaves at p an object equal to v, also when an object
\* was destroyed there before; construct and destroy neither allocate nor release
C9_ConstructDestroy ==
  [][/\ (op'.name = "construct" =>
           (/\ mem'[op'.p].st = "constructed"
            /\ mem'[op'.p].val = op'.val
            /\ calls' = <<>>
            /\ heap' = heap))
      /\ (op'.name = "destroy" =>
           (/\ mem'[op'.p].st = "destroyed"
            /\ mem'[op'.p].type = mem[op'.p].type
            /\ calls' = <<>>
            /\ heap' = heap
            /\ live' = live))]_vars

C9_Witness ==
  /\ op.name = "construct"
  /\ op.before.st = "destroyed"
  /\ op.before.val # op.val
  /\ mem[op.p].val = op.val

\* C10: allocate forwards every n to malloc; for n <= max_size() the byte
\* count is the product without wrap-around and is at most max_bytes
C10_NoWrapWithinMaxSize ==
  op.name = "allocate" =>
    /\ Len(calls) = 1
    /\ calls[1].fn = "malloc"
    /\ (op.n <= max_size(op.type, max_bytes) =>
          (/\ calls[1].arg = op.n * SizeOf(op.type)
           /\ calls[1].arg <= max_bytes))

C10_Witness ==
  /\ op.name = "allocate"
  /\ op.type = "pair"
  /\ op.n > 0
  /\ op.n = max_size(op.type, max_bytes)
  /\ ~op.thrown

====
